---- MODULE Spec2Model ----
(***************************************************************************)
(* Session orchestration of the Vaani backend: the in-memory session       *)
(* registry (transport/session_manager.py), the call-start route and its   *)
(* background task (routes/webrtc.py), the pipeline runner with its        *)
(* transport event handlers (pipeline/runner.py) and the send-text turn    *)
(* with its tool-call loop (routes/chat.py).                               *)
(***************************************************************************)
EXTENDS Integers, Sequences, FiniteSets, TLC

\* ------------------------------------------------------------------ bounds
NumCalls == 2          \* call-start requests; each gets its own uuid4 id
MaxDisconnects == 2    \* disconnect signals the transport may emit per call
NumTasks == 2          \* distinct pipeline task handles of the registry harness

NumRequests == 2       \* send-text requests, which may overlap
NumChatSessions == 2   \* session ids the send-text requests name
MaxTextLen == 2        \* characters of a request's or a reply's text
MaxToolCalls == 2  \* tool invocations in one collaborator response
MaxClock == 3      \* seconds the clock of the session records runs
NumHistoryRequests == 1  \* send-text requests running next to session-clear requests
MaxClears == 2     \* session-clear requests

Calls == 1..NumCalls
TaskHandles == 1..NumTasks
Requests == 1..NumRequests
ChatSessions == 1..NumChatSessions

VARIABLES
    active_sessions,   \* session_manager._active_sessions: id -> task handle
    reg_op,            \* the last registry operation of the harness and its outcome
    offer_pc,          \* webrtc_offer, per call: where the request handler is
    task_pc,           \* run_and_cleanup, per call: where the background task is
    task_exit,         \* how run_and_cleanup left: "none" | "returned" | "raised"
                       \* (the re-raise) | "storage_fault" (end_session raised)
    pipe,              \* the PipelineTask awaited by runner.run(task)
    connected,         \* on_client_connected: "none" | "creating" | "done" | "failed"
    greeted,           \* on_client_ready queued the greeting frames
    disconnects,       \* disconnect signals emitted so far
    h_cancel,          \* on_client_disconnected handlers awaiting task.cancel()
    h_write,           \* on_client_disconnected handlers awaiting end_session(ENDED)
    end_calls,         \* statuses passed to session_repo.end_session, in call order
    sess_status,       \* stored Session.status: "absent" | "active" | "ended" | "error"
    chat_db,           \* the "messages" collection: per session id, in insertion order
    turn,              \* send_text_message, per request: its locals and its response
    tool_op,           \* the last tool handler call of the harness and its outcome
    session_doc,       \* the "sessions" collection of the harness: id -> record
    clock,             \* datetime.utcnow() of the harness, in seconds
    clear_op           \* the last DELETE /chat/{session_id} request and its response

callVars == <<offer_pc, task_pc, task_exit, pipe, connected, greeted, disconnects,
              h_cancel, h_write, end_calls, sess_status>>
chatVars == <<chat_db, turn>>
harnessVars == <<tool_op, session_doc, clock, clear_op>>
otherVars == <<active_sessions, reg_op, callVars, harnessVars>>
vars == <<active_sessions, reg_op, callVars, chatVars, harnessVars>>

\* ------------------------------------------------------- session registry
NoTask == 0            \* get_session's None

add_session_alone(reg, id, task) ==
    [reg |-> [k \in {id} |-> task], raised |-> "none"]

\* _active_sessions[session_id] = task
add_session(reg, id, task) ==
    [reg |-> [k \in DOMAIN reg \cup {id} |-> IF k = id THEN task ELSE reg[k]],
     raised |-> "none"]

remove_session_clear(reg, id) ==
    [reg |-> [k \in {} |-> NoTask], raised |-> "none", log |-> "info"]

remove_session_del(reg, id) ==
    IF id \in DOMAIN reg
    THEN [reg |-> [k \in DOMAIN reg \ {id} |-> reg[k]], raised |-> "none", log |-> "info"]
    ELSE [reg |-> reg, raised |-> "KeyError", log |-> "none"]

\* if session_id in _active_sessions: del ... else: logger.warning(...)
remove_session(reg, id) ==
    IF id \in DOMAIN reg
    THEN [reg |-> [k \in DOMAIN reg \ {id} |-> reg[k]], raised |-> "none", log |-> "info"]
    ELSE [reg |-> reg, raised |-> "none", log |-> "warning"]

get_session(reg, id) == IF id \in DOMAIN reg THEN reg[id] ELSE NoTask

get_active_count(reg) == Cardinality(DOMAIN reg)

is_session_active(reg, id) == id \in DOMAIN reg

EmptyRegistry == [k \in {} |-> NoTask]

NoOp == [op |-> "none", id |-> 0, task |-> NoTask, pre |-> EmptyRegistry,
         raised |-> "none", ret |-> 0]

InitRegistry ==
    /\ active_sessions = EmptyRegistry
    /\ reg_op = NoOp

\* The registry's public functions called directly, with any id and task.
CallAddSession(id, task) ==
    LET r == add_session(active_sessions, id, task) IN
    /\ active_sessions' = r.reg
    /\ reg_op' = [op |-> "add", id |-> id, task |-> task, pre |-> active_sessions,
                  raised |-> r.raised, ret |-> 0]
    /\ UNCHANGED <<callVars, chatVars, harnessVars>>

CallRemoveSession(id) ==
    LET r == remove_session(active_sessions, id) IN
    /\ active_sessions' = r.reg
    /\ reg_op' = [op |-> "remove", id |-> id, task |-> NoTask, pre |-> active_sessions,
                  raised |-> r.raised, ret |-> 0]
    /\ UNCHANGED <<callVars, chatVars, harnessVars>>

CallGetSession(id) ==
    /\ reg_op' = [op |-> "get", id |-> id, task |-> NoTask, pre |-> active_sessions,
                  raised |-> "none", ret |-> get_session(active_sessions, id)]
    /\ UNCHANGED <<active_sessions, callVars, chatVars, harnessVars>>

CallGetActiveCount ==
    /\ reg_op' = [op |-> "count", id |-> 0, task |-> NoTask, pre |-> active_sessions,
                  raised |-> "none", ret |-> get_active_count(active_sessions)]
    /\ UNCHANGED <<active_sessions, callVars, chatVars, harnessVars>>

CallIsSessionActive(id) ==
    /\ reg_op' = [op |-> "is_active", id |-> id, task |-> NoTask, pre |-> active_sessions,
                  raised |-> "none",
                  ret |-> IF is_session_active(active_sessions, id) THEN 1 ELSE 0]
    /\ UNCHANGED <<active_sessions, callVars, chatVars, harnessVars>>

\* ------------------------------------------------- persistence collaborator
\* session_repo.create_session(id): inserts the record with status Active.
create_session(stored) == "active"

end_session_ignored(stored, status) == stored

\* session_repo.end_session(id, status): updates the record of an existing session.
end_session(stored, status) == IF stored = "absent" THEN "absent" ELSE status

\* ------------------------------------------------------------ call-start
InitCalls ==
    /\ offer_pc = [c \in Calls |-> "idle"]
    /\ task_pc = [c \in Calls |-> "none"]
    /\ task_exit = [c \in Calls |-> "none"]
    /\ pipe = [c \in Calls |-> "new"]
    /\ connected = [c \in Calls |-> "none"]
    /\ greeted = [c \in Calls |-> FALSE]
    /\ disconnects = [c \in Calls |-> 0]
    /\ h_cancel = [c \in Calls |-> 0]
    /\ h_write = [c \in Calls |-> 0]
    /\ end_calls = [c \in Calls |-> <<>>]
    /\ sess_status = [c \in Calls |-> "absent"]

\* POST /offer arrives: session_id = uuid4() (the call's own id), then
\* await webrtc_connection.initialize(...)
OfferStart(c) ==
    /\ offer_pc[c] = "idle"
    /\ offer_pc' = [offer_pc EXCEPT ![c] = "initializing"]
    /\ UNCHANGED <<active_sessions, reg_op, task_pc, task_exit, pipe, connected, greeted,
                   disconnects, h_cancel, h_write, end_calls, sess_status, chatVars, harnessVars>>

OfferFails_after_admit(c) ==
    /\ offer_pc[c] = "initializing"
    /\ offer_pc' = [offer_pc EXCEPT ![c] = "failed"]
    /\ active_sessions' = add_session(active_sessions, c, c).reg
    /\ UNCHANGED <<reg_op, task_pc, task_exit, pipe, connected, greeted,
                   disconnects, h_cancel, h_write, end_calls, sess_status, chatVars,
                   harnessVars>>

\* initialize, get_answer, create_transport or build_pipeline raises:
\* the except clauses answer 500 before add_session was reached.
OfferFails(c) ==
    /\ offer_pc[c] = "initializing"
    /\ offer_pc' = [offer_pc EXCEPT ![c] = "failed"]
    /\ UNCHANGED <<active_sessions, reg_op, task_pc, task_exit, pipe, connected, greeted,
                   disconnects, h_cancel, h_write, end_calls, sess_status, chatVars, harnessVars>>

\* initialize returned; with no await in between: build_pipeline,
\* add_session(session_id, task), asyncio.create_task(run_and_cleanup()), return.
OfferAdmits(c) ==
    /\ offer_pc[c] = "initializing"
    /\ active_sessions' = add_session(active_sessions, c, c).reg
    /\ task_pc' = [task_pc EXCEPT ![c] = "created"]
    /\ offer_pc' = [offer_pc EXCEPT ![c] = "answered"]
    /\ UNCHANGED <<reg_op, task_exit, pipe, connected, greeted,
                   disconnects, h_cancel, h_write, end_calls, sess_status, chatVars, harnessVars>>

\* ------------------------------------------------------- background task
run_and_cleanup_no_finally(reg, id, raised) ==
    IF raised THEN reg ELSE remove_session(reg, id).reg

\* try: await run_pipeline(...)  finally: remove_session(session_id)
run_and_cleanup_finally(reg, id, raised) == remove_session(reg, id).reg

\* The event loop starts run_and_cleanup: run_pipeline registers the three event
\* handlers and awaits runner.run(task).
TaskStarts(c) ==
    /\ task_pc[c] = "created"
    /\ task_pc' = [task_pc EXCEPT ![c] = "running"]
    /\ pipe' = [pipe EXCEPT ![c] = "running"]
    /\ UNCHANGED <<active_sessions, reg_op, offer_pc, task_exit, connected, greeted,
                   disconnects, h_cancel, h_write, end_calls, sess_status, chatVars, harnessVars>>

\* The pipeline finishes on its own (end of stream, idle timeout).
PipelineEnds(c) ==
    /\ pipe[c] = "running"
    /\ pipe' = [pipe EXCEPT ![c] = "finished"]
    /\ UNCHANGED <<active_sessions, reg_op, offer_pc, task_pc, task_exit, connected, greeted,
                   disconnects, h_cancel, h_write, end_calls, sess_status, chatVars, harnessVars>>

\* A processor of the pipeline raises.
PipelineFaults(c) ==
    /\ pipe[c] = "running"
    /\ pipe' = [pipe EXCEPT ![c] = "faulted"]
    /\ UNCHANGED <<active_sessions, reg_op, offer_pc, task_pc, task_exit, connected, greeted,
                   disconnects, h_cancel, h_write, end_calls, sess_status, chatVars, harnessVars>>

\* The cancellation requested by task.cancel() stops the pipeline.
PipelineCancelled(c) ==
    /\ pipe[c] = "cancelling"
    /\ pipe' = [pipe EXCEPT ![c] = "finished"]
    /\ UNCHANGED <<active_sessions, reg_op, offer_pc, task_pc, task_exit, connected, greeted,
                   disconnects, h_cancel, h_write, end_calls, sess_status, chatVars, harnessVars>>

\* runner.run(task) returns: the finally of run_pipeline logs, run_pipeline
\* returns, the finally of run_and_cleanup evicts.
RunnerReturns(c) ==
    /\ task_pc[c] = "running"
    /\ pipe[c] = "finished"
    /\ active_sessions' = run_and_cleanup_finally(active_sessions, c, FALSE)
    /\ task_pc' = [task_pc EXCEPT ![c] = "exited"]
    /\ task_exit' = [task_exit EXCEPT ![c] = "returned"]
    /\ UNCHANGED <<reg_op, offer_pc, pipe, connected, greeted,
                   disconnects, h_cancel, h_write, end_calls, sess_status, chatVars, harnessVars>>

\* runner.run(task) raises: except Exception calls end_session(id, ERROR) and
\* awaits it.
RunnerRaises(c) ==
    /\ task_pc[c] = "running"
    /\ pipe[c] = "faulted"
    /\ end_calls' = [end_calls EXCEPT ![c] = Append(@, "error")]
    /\ task_pc' = [task_pc EXCEPT ![c] = "error_write"]
    /\ UNCHANGED <<active_sessions, reg_op, offer_pc, task_exit, pipe, connected, greeted,
                   disconnects, h_cancel, h_write, sess_status, chatVars, harnessVars>>

\* end_session(id, ERROR) completes, having stored the status or having raised
\* DatabaseError; either way an exception leaves run_pipeline (the re-raise, or
\* the storage fault) and the finally of run_and_cleanup evicts.
ErrorWriteReturns(c) ==
    /\ task_pc[c] = "error_write"
    /\ \E stored \in BOOLEAN :
         /\ sess_status' = [sess_status EXCEPT ![c] =
                               IF stored THEN end_session(@, "error") ELSE @]
         /\ task_exit' = [task_exit EXCEPT ![c] =
                             IF stored THEN "raised" ELSE "storage_fault"]
    /\ active_sessions' = run_and_cleanup_finally(active_sessions, c, TRUE)
    /\ task_pc' = [task_pc EXCEPT ![c] = "exited"]
    /\ UNCHANGED <<reg_op, offer_pc, pipe, connected, greeted,
                   disconnects, h_cancel, h_write, end_calls, chatVars, harnessVars>>

\* ------------------------------------------------ transport event handlers
\* The handlers exist once run_pipeline has registered them, and stay registered
\* on the transport after run_pipeline has left.
HandlersRegistered(c) == task_pc[c] \in {"running", "error_write", "exited"}

\* "connected" signal: on_client_connected awaits create_session(session_id).
ConnectedSignal(c) ==
    /\ HandlersRegistered(c)
    /\ pipe[c] = "running"
    /\ connected[c] = "none"
    /\ connected' = [connected EXCEPT ![c] = "creating"]
    /\ UNCHANGED <<active_sessions, reg_op, offer_pc, task_pc, task_exit, pipe, greeted,
                   disconnects, h_cancel, h_write, end_calls, sess_status, chatVars, harnessVars>>

\* create_session completes: the record is stored, or DatabaseError is raised
\* in the handler.
CreateSessionReturns(c) ==
    /\ connected[c] = "creating"
    /\ \E stored \in BOOLEAN :
         /\ sess_status' = [sess_status EXCEPT ![c] =
                               IF stored THEN create_session(@) ELSE @]
         /\ connected' = [connected EXCEPT ![c] = IF stored THEN "done" ELSE "failed"]
    /\ UNCHANGED <<active_sessions, reg_op, offer_pc, task_pc, task_exit, pipe, greeted,
                   disconnects, h_cancel, h_write, end_calls, chatVars, harnessVars>>

\* "client ready" signal: on_client_ready queues the greeting instruction.
ReadySignal(c) ==
    /\ HandlersRegistered(c)
    /\ pipe[c] = "running"
    /\ connected[c] # "none"
    /\ ~greeted[c]
    /\ greeted' = [greeted EXCEPT ![c] = TRUE]
    /\ UNCHANGED <<active_sessions, reg_op, offer_pc, task_pc, task_exit, pipe, connected,
                   disconnects, h_cancel, h_write, end_calls, sess_status, chatVars, harnessVars>>

task_cancel_noop(p) == p

\* PipelineTask.cancel(): asks a running pipeline to stop; nothing to do otherwise.
task_cancel(p) == IF p = "running" THEN "cancelling" ELSE p

\* "disconnected" signal: on_client_disconnected calls task.cancel() and awaits it.
DisconnectedSignal(c) ==
    /\ HandlersRegistered(c)
    /\ connected[c] # "none"
    /\ disconnects[c] < MaxDisconnects
    /\ disconnects' = [disconnects EXCEPT ![c] = @ + 1]
    /\ pipe' = [pipe EXCEPT ![c] = task_cancel(@)]
    /\ h_cancel' = [h_cancel EXCEPT ![c] = @ + 1]
    /\ UNCHANGED <<active_sessions, reg_op, offer_pc, task_pc, task_exit, connected, greeted,
                   h_write, end_calls, sess_status, chatVars, harnessVars>>

\* task.cancel() returns once the pipeline has stopped; the handler goes on to
\* call end_session(session_id, ENDED) and awaits it.
DisconnectCancelReturns(c) ==
    /\ h_cancel[c] > 0
    /\ pipe[c] \in {"finished", "faulted"}
    /\ h_cancel' = [h_cancel EXCEPT ![c] = @ - 1]
    /\ h_write' = [h_write EXCEPT ![c] = @ + 1]
    /\ end_calls' = [end_calls EXCEPT ![c] = Append(@, "ended")]
    /\ UNCHANGED <<active_sessions, reg_op, offer_pc, task_pc, task_exit, pipe, connected,
                   greeted, disconnects, sess_status, chatVars, harnessVars>>

\* end_session(id, ENDED) completes: stored, or DatabaseError raised in the handler.
EndedWriteReturns(c) ==
    /\ h_write[c] > 0
    /\ h_write' = [h_write EXCEPT ![c] = @ - 1]
    /\ \E stored \in BOOLEAN :
         sess_status' = [sess_status EXCEPT ![c] =
                            IF stored THEN end_session(@, "ended") ELSE @]
    /\ UNCHANGED <<active_sessions, reg_op, offer_pc, task_pc, task_exit, pipe, connected,
                   greeted, disconnects, h_cancel, end_calls, chatVars, harnessVars>>

\* ------------------------------------------------------- send-text: data
\* A text is a sequence of characters; " " stands for any whitespace character.
Chars == {" ", "x"}
Texts == UNION {[1..n -> Chars] : n \in 0..MaxTextLen}

\* message.content of a collaborator response: None (<<>>) or one text (<<t>>).
LLMContents == {<<>>} \cup {<<t>> : t \in Texts}

\* (content or "")
or_empty(c) == IF c = <<>> THEN <<>> ELSE c[1]

RECURSIVE lstrip(_)
lstrip(t) == IF t # <<>> /\ Head(t) = " " THEN lstrip(Tail(t)) ELSE t

RECURSIVE rstrip(_)
rstrip(t) ==
    IF t # <<>> /\ t[Len(t)] = " " THEN rstrip(SubSeq(t, 1, Len(t) - 1)) ELSE t

\* str.strip()
strip(t) == rstrip(lstrip(t))

SystemPrompt == <<"get_system_prompt()">>
NoResponseText == <<"I couldn't generate a response.">>
NoResultText == <<"No result returned">>
ToolOutput == <<"tool output">>
NotFoundText(name) == <<"Error: Tool '", name, "' not found.">>
\* The fallback of the specification's turn bound; no code of the route builds it.
TroubleText == <<"I'm having trouble retrieving that information right now">>

\* tools/__init__.py: the handler map
TOOL_HANDLERS == {"search_web", "crawl_webpage", "extract_webpage", "get_weather",
                  "calculate", "get_current_time"}

\* What a collaborator may ask for: a registered tool or a name of its own; with
\* arguments that are a JSON object the handler accepts ("object"), JSON that
\* the handler's argument reading rejects before its try block ("rejected":
\* max_results "many", a list for a mapping), or no JSON at all ("malformed").
\* Nothing reads the parsed arguments of an unregistered name.
RequestedNames == {"calculate", "frobnicate"}
ArgKinds == {"object", "rejected", "malformed"}
ToolCallShapes ==
    {c \in [name : RequestedNames, arguments : ArgKinds] :
        c.arguments = "rejected" => c.name \in TOOL_HANDLERS}
ToolCallLists == UNION {[1..n -> ToolCallShapes] : n \in 1..MaxToolCalls}

HISTORY_LIMIT == 20

Entry_no_id(role, content, id, name) ==
    [role |-> role, content |-> content, tool_call_id |-> 0, name |-> name]

\* One entry of the context list `messages`.
Entry(role, content, id, name) ==
    [role |-> role, content |-> content, tool_call_id |-> id, name |-> name]

\* One stored Message; `by` is the request that saved it (the Message's own id).
Stored(role, content, r) == [role |-> role, content |-> content, by |-> r]

\* message_repo.save_message: insert_one into the collection
save_message(db, sid, role, content, r) ==
    [db EXCEPT ![sid] = Append(@, Stored(role, content, r))]

\* message_repo.get_messages: find by session id, sort timestamp ascending, limit
get_messages(db, sid, limit) ==
    SubSeq(db[sid], 1, IF Len(db[sid]) < limit THEN Len(db[sid]) ELSE limit)

\* messages = [system] + the user/assistant Messages of history
build_messages(history) ==
    <<Entry("system", SystemPrompt, 0, "")>> \o
    [i \in 1..Len(SelectSeq(history, LAMBDA m : m.role \in {"user", "assistant"})) |->
        Entry(SelectSeq(history, LAMBDA m : m.role \in {"user", "assistant"})[i].role,
              SelectSeq(history, LAMBDA m : m.role \in {"user", "assistant"})[i].content,
              0, "")]

final_text_no_fallback(ai_text) == ai_text

final_text_trouble(ai_text) == IF ai_text = <<>> THEN TroubleText ELSE ai_text

\* if not ai_text: ai_text = "I couldn't generate a response."
final_text(ai_text) == IF ai_text = <<>> THEN NoResponseText ELSE ai_text

outer_except_swallow(exc) == 200

\* except Exception: raise HTTPException(status_code=500, ...)
outer_except(exc) == 500

after_tools_loop_again(tool_was_used, ai_text) == "decide"

after_tools_skip_finish(tool_was_used, ai_text) == "save_reply"

\* if tool_was_used and not ai_text: the finishing call; else straight to the save
after_tools(tool_was_used, ai_text) ==
    IF tool_was_used /\ ai_text = <<>> THEN "finish" ELSE "save_reply"

IdleTurn ==
    [pc |-> "idle", session |-> 0, content |-> <<>>, messages |-> <<>>,
     tool_calls |-> <<>>, tc_i |-> 0, ai_text |-> <<>>, tool_was_used |-> FALSE,
     reply_blank |-> FALSE, llm_calls |-> <<>>, tool_log |-> <<>>, status |-> 0,
     body |-> <<>>, fault |-> "none"]

InitChat ==
    /\ chat_db = [sid \in ChatSessions |-> <<>>]
    /\ turn = [r \in Requests |-> IdleTurn]

\* One collaborator call is issued: with or without the tool schemas.
Issue(calls, with_tools) == Append(calls, [tools |-> with_tools, reply |-> "pending"])

\* The call in flight gets its reply.
Replied(calls, kind) == [calls EXCEPT ![Len(calls)].reply = kind]

\* What became of one tool invocation: "result" | "not_found" | "json_error" |
\* "handler_error".
Ran(name, outcome) == [name |-> name, outcome |-> outcome]

\* mock_params.result or "No result returned"
result_or_default(res) == IF res = <<>> THEN NoResultText ELSE res

\* Whitespace only (or empty), character by character.
IsBlank(t) == \A i \in 1..Len(t) : t[i] = " "

\* The handler returns or raises: its locals are gone, the response and what the
\* turn did stay.
Done(t, status, body, exc) ==
    [IdleTurn EXCEPT !.pc = "done", !.session = t.session,
                     !.llm_calls = t.llm_calls, !.tool_log = t.tool_log,
                     !.reply_blank = t.reply_blank, !.status = status,
                     !.body = body, !.fault = exc]

\* The request ends in the outer except clause.
Fail(t, exc) == Done(t, outer_except(exc), <<>>, exc)

\* The collaborator call in flight returned the content c.
GotText(t, c) ==
    [t EXCEPT !.llm_calls = Replied(@, "text"),
              !.reply_blank = IsBlank(or_empty(c)),
              !.ai_text = strip(or_empty(c))]

\* Step 4 is reached: the empty-answer substitution, then save_message is awaited.
ToSave(t) == [t EXCEPT !.pc = "save_reply", !.ai_text = final_text(t.ai_text)]

\* Line 206 is reached: the finishing call is issued, or step 4 follows.
Proceed(t) ==
    LET nxt == after_tools(t.tool_was_used, t.ai_text) IN
    IF nxt = "save_reply"
    THEN ToSave(t)
    ELSE [t EXCEPT !.pc = nxt, !.llm_calls = Issue(@, nxt = "decide")]

\* ---------------------------------------------------- send-text: the turn
\* POST /chat/{session_id}: the emptiness test, then save_message(USER) with the
\* stripped content is awaited. The HTTPException(400) is raised inside the try.
ReceiveSendText(r) ==
    /\ turn[r].pc = "idle"
    /\ \E sid \in ChatSessions, content \in Texts :
         turn' = [turn EXCEPT ![r] =
                    IF strip(content) = <<>>
                    THEN Fail([IdleTurn EXCEPT !.session = sid], "HTTPException400")
                    ELSE [IdleTurn EXCEPT !.pc = "save_user", !.session = sid,
                                          !.content = strip(content)]]
    /\ UNCHANGED <<chat_db, otherVars>>

\* save_message(USER) returns, then get_messages is awaited; or it raises.
SaveUserReturns(r) ==
    /\ turn[r].pc = "save_user"
    /\ \/ /\ chat_db' = save_message(chat_db, turn[r].session, "user",
                                     turn[r].content, r)
          /\ turn' = [turn EXCEPT ![r].pc = "get_history"]
       \/ /\ turn' = [turn EXCEPT ![r] = Fail(@, "DatabaseError")]
          /\ UNCHANGED chat_db
    /\ UNCHANGED otherVars

\* get_messages returns: the context is built and the decision call is issued
\* with the tool schemas; or it raises.
GetHistoryReturns(r) ==
    /\ turn[r].pc = "get_history"
    /\ \/ turn' = [turn EXCEPT
                     ![r].messages =
                         build_messages(get_messages(chat_db, turn[r].session,
                                                     HISTORY_LIMIT)),
                     ![r].llm_calls = Issue(@, TRUE),
                     ![r].pc = "decide"]
       \/ turn' = [turn EXCEPT ![r] = Fail(@, "DatabaseError")]
    /\ UNCHANGED <<chat_db, otherVars>>

DecisionReturns_retry_any(r) ==
    /\ turn[r].pc = "decide"
    /\ \/ \E c \in LLMContents :
            turn' = [turn EXCEPT ![r] = Proceed(GotText(@, c))]
       \/ \E tc \in ToolCallLists :
            turn' = [turn EXCEPT
                        ![r].llm_calls = Replied(@, "tool_calls"),
                        ![r].tool_was_used = TRUE,
                        ![r].messages = Append(@, Entry("assistant", <<"tool_calls">>, 0, "")),
                        ![r].tool_calls = tc,
                        ![r].tc_i = 1,
                        ![r].pc = "tools"]
       \/ \E kind \in {"tool_use_failed", "error"} :
            turn' = [turn EXCEPT
                        ![r].llm_calls = Issue(Replied(@, kind), FALSE),
                        ![r].pc = "retry"]
    /\ UNCHANGED <<chat_db, otherVars>>

DecisionReturns_no_retry(r) ==
    /\ turn[r].pc = "decide"
    /\ \/ \E c \in LLMContents :
            turn' = [turn EXCEPT ![r] = Proceed(GotText(@, c))]
       \/ \E tc \in ToolCallLists :
            turn' = [turn EXCEPT
                        ![r].llm_calls = Replied(@, "tool_calls"),
                        ![r].tool_was_used = TRUE,
                        ![r].messages = Append(@, Entry("assistant", <<"tool_calls">>, 0, "")),
                        ![r].tool_calls = tc,
                        ![r].tc_i = 1,
                        ![r].pc = "tools"]
       \/ turn' = [turn EXCEPT ![r] =
                      Fail([@ EXCEPT !.llm_calls = Replied(@, "tool_use_failed")],
                           "BadRequestError")]
       \/ turn' = [turn EXCEPT ![r] =
                      Fail([@ EXCEPT !.llm_calls = Replied(@, "error")], "LLMError")]
    /\ UNCHANGED <<chat_db, otherVars>>

\* The decision call returns text, returns tool invocations, raises the
\* malformed-tool-call BadRequestError (the retry without tools is issued), or
\* raises anything else.
DecisionReturns(r) ==
    /\ turn[r].pc = "decide"
    /\ \/ \E c \in LLMContents :
            turn' = [turn EXCEPT ![r] = Proceed(GotText(@, c))]
       \/ \E tc \in ToolCallLists :
            turn' = [turn EXCEPT
                        ![r].llm_calls = Replied(@, "tool_calls"),
                        ![r].tool_was_used = TRUE,
                        ![r].messages = Append(@, Entry("assistant", <<"tool_calls">>, 0, "")),
                        ![r].tool_calls = tc,
                        ![r].tc_i = 1,
                        ![r].pc = "tools"]
       \/ turn' = [turn EXCEPT
                      ![r].llm_calls = Issue(Replied(@, "tool_use_failed"), FALSE),
                      ![r].pc = "retry"]
       \/ turn' = [turn EXCEPT ![r] =
                      Fail([@ EXCEPT !.llm_calls = Replied(@, "error")], "LLMError")]
    /\ UNCHANGED <<chat_db, otherVars>>

\* The retry without tools returns its text, or raises.
RetryReturns(r) ==
    /\ turn[r].pc = "retry"
    /\ \/ \E c \in LLMContents :
            turn' = [turn EXCEPT ![r] =
                        Proceed([GotText(@, c) EXCEPT !.tool_was_used = FALSE])]
       \/ turn' = [turn EXCEPT ![r] =
                      Fail([@ EXCEPT !.llm_calls = Replied(@, "error")], "LLMError")]
    /\ UNCHANGED <<chat_db, otherVars>>

\* One iteration of `for tool_call in tool_calls`: json.loads of the arguments,
\* the handler lookup, the handler or the not-found text, the tool entry.
ToolCallStep(r) ==
    /\ turn[r].pc = "tools"
    /\ turn[r].tc_i <= Len(turn[r].tool_calls)
    /\ LET call == turn[r].tool_calls[turn[r].tc_i] IN
         turn' = [turn EXCEPT ![r] =
            IF call.arguments = "malformed"
            THEN Fail([@ EXCEPT !.tool_log = Append(@, Ran(call.name, "json_error"))],
                      "JSONDecodeError")
            ELSE IF call.name \in TOOL_HANDLERS /\ call.arguments = "rejected"
            THEN Fail([@ EXCEPT !.tool_log = Append(@, Ran(call.name, "handler_error"))],
                      "HandlerError")
            ELSE [@ EXCEPT
                    !.messages =
                        Append(@, Entry("tool",
                                        IF call.name \in TOOL_HANDLERS
                                        THEN result_or_default(ToolOutput)
                                        ELSE NotFoundText(call.name),
                                        turn[r].tc_i, call.name)),
                    !.tool_log = Append(@, Ran(call.name,
                                                IF call.name \in TOOL_HANDLERS
                                                THEN "result" ELSE "not_found")),
                    !.tc_i = @ + 1]]
    /\ UNCHANGED <<chat_db, otherVars>>

\* The for loop is over.
ToolLoopEnds(r) ==
    /\ turn[r].pc = "tools"
    /\ turn[r].tc_i > Len(turn[r].tool_calls)
    /\ turn' = [turn EXCEPT ![r] = Proceed(@)]
    /\ UNCHANGED <<chat_db, otherVars>>

\* The finishing call (no tools) returns its text, or raises.
FinishReturns(r) ==
    /\ turn[r].pc = "finish"
    /\ \/ \E c \in LLMContents :
            turn' = [turn EXCEPT ![r] = ToSave(GotText(@, c))]
       \/ turn' = [turn EXCEPT ![r] =
                      Fail([@ EXCEPT !.llm_calls = Replied(@, "error")], "LLMError")]
    /\ UNCHANGED <<chat_db, otherVars>>

SaveReplyReturns_with_tool_turn(r) ==
    /\ turn[r].pc = "save_reply"
    /\ \/ /\ chat_db' =
               save_message(IF turn[r].tool_was_used
                            THEN save_message(chat_db, turn[r].session, "assistant",
                                              <<"tool_calls">>, r)
                            ELSE chat_db,
                            turn[r].session, "assistant", turn[r].ai_text, r)
          /\ turn' = [turn EXCEPT ![r] = Done(@, 200, turn[r].ai_text, "none")]
       \/ /\ turn' = [turn EXCEPT ![r] = Fail(@, "DatabaseError")]
          /\ UNCHANGED chat_db
    /\ UNCHANGED otherVars

\* save_message(ASSISTANT) returns and the Message is the 200 response; or it raises.
SaveReplyReturns(r) ==
    /\ turn[r].pc = "save_reply"
    /\ \/ /\ chat_db' = save_message(chat_db, turn[r].session, "assistant",
                                     turn[r].ai_text, r)
          /\ turn' = [turn EXCEPT ![r] = Done(@, 200, turn[r].ai_text, "none")]
       \/ /\ turn' = [turn EXCEPT ![r] = Fail(@, "DatabaseError")]
          /\ UNCHANGED chat_db
    /\ UNCHANGED otherVars


\* --------------------------------------------------------- tool handlers
\* The value a parsed argument mapping holds under one key: no such key, a
\* string that is not a number, a string of digits, a number, a list.
ArgValues == {"absent", "text", "digits", "int", "list"}

\* The keys each handler reads from params.arguments.
HandlerParams(name) ==
    CASE name = "search_web" -> {"query", "max_results", "search_depth"}
      [] name = "crawl_webpage" -> {"url", "max_depth", "limit"}
      [] name = "extract_webpage" -> {"urls"}
      [] name = "get_weather" -> {"city", "unit"}
      [] name = "calculate" -> {"expression"}
      [] name = "get_current_time" -> {"timezone"}

ArgMappings(name) == [HandlerParams(name) -> ArgValues]

\* args.get(key, "").strip(): AttributeError for a value that is no string
strip_raises(v) == v \in {"int", "list"}

\* int(args.get(key, n)): ValueError for a non-numeric string, TypeError for a list
int_raises(v) == v \in {"text", "list"}

\* args.get(key, [])[:3]: TypeError for a number
slice_raises(v) == v = "int"

\* The statements of a handler before its try block raise for this mapping.
reads_raise(name, args) ==
    CASE name = "search_web" -> int_raises(args["max_results"])
      [] name = "crawl_webpage" -> int_raises(args["max_depth"]) \/ int_raises(args["limit"])
      [] name = "extract_webpage" -> slice_raises(args["urls"])
      [] name = "get_weather" -> strip_raises(args["city"])
      [] name = "calculate" -> strip_raises(args["expression"])
      [] name = "get_current_time" -> strip_raises(args["timezone"])

\* One handler call: the argument reading, then the try block whose every
\* branch ends in one result_callback(text): the result, or the error text of
\* an except clause when the work inside the try failed.
handler(name, args, work_ok) ==
    IF reads_raise(name, args)
    THEN [name |-> name, args |-> args, raised |-> TRUE, results |-> <<>>]
    ELSE [name |-> name, args |-> args, raised |-> FALSE,
          results |-> <<IF work_ok THEN "result" ELSE "error text">>]

NoToolOp == [name |-> "none", args |-> <<>>, raised |-> FALSE, results |-> <<>>]

InitTools == tool_op = NoToolOp

\* await handler(params) for the handler registered under the name.
CallHandler(name) ==
    /\ \E args \in ArgMappings(name), work_ok \in BOOLEAN :
         tool_op' = handler(name, args, work_ok)
    /\ UNCHANGED <<active_sessions, reg_op, callVars, chatVars, session_doc, clock, clear_op>>

\* ------------------------------------------------------- session records
None == -1

\* models.Session(id=session_id): started_at = utcnow(), the rest by default
new_session(now) ==
    [started_at |-> now, ended_at |-> None, duration_seconds |-> None,
     status |-> create_session("absent"), message_count |-> 0]

finalize_status_only(doc, status, now) ==
    [doc EXCEPT !.ended_at = now, !.status = end_session(doc.status, status)]

\* session_repo.end_session(id, status): ended_at = utcnow(), the duration is
\* computed from the stored started_at, the status is set.
finalize(doc, status, now) ==
    [doc EXCEPT !.ended_at = now,
                !.duration_seconds = now - doc.started_at,
                !.status = end_session(doc.status, status)]

NoDocs == [c \in {} |-> 0]

InitSessions ==
    /\ session_doc = NoDocs
    /\ clock = 0

ClockTick ==
    /\ clock < MaxClock
    /\ clock' = clock + 1
    /\ UNCHANGED <<active_sessions, reg_op, callVars, chatVars, tool_op, session_doc, clear_op>>

\* "connected": create_session(session_id) inserts the record.
RepoCreateSession(c) ==
    /\ c \notin DOMAIN session_doc
    /\ session_doc' = [k \in DOMAIN session_doc \cup {c} |->
                          IF k = c THEN new_session(clock) ELSE session_doc[k]]
    /\ UNCHANGED <<active_sessions, reg_op, callVars, chatVars, tool_op, clock, clear_op>>

\* disconnect or fault: end_session(session_id, status); nothing matches when no
\* record exists.
RepoEndSession(c, status) ==
    /\ session_doc' = [k \in DOMAIN session_doc |->
                          IF k = c THEN finalize(session_doc[k], status, clock)
                          ELSE session_doc[k]]
    /\ UNCHANGED <<active_sessions, reg_op, callVars, chatVars, tool_op, clock, clear_op>>


\* ---------------------------------------------------------- session-clear
delete_all_messages(db, sid) ==
    [db |-> [k \in DOMAIN db |-> <<>>], deleted_count |-> Len(db[sid])]

\* message_repo.delete_session_messages: delete_many({"session_id": session_id})
delete_session_messages(db, sid) ==
    [db |-> [db EXCEPT ![sid] = <<>>], deleted_count |-> Len(db[sid])]

NoClear == [n |-> 0, session |-> 0, status |-> 0, deleted |-> 0]

InitClear == clear_op = NoClear

\* DELETE /chat/{session_id}: delete_session_messages is awaited; its count is
\* the response, or DatabaseError becomes HTTP 500.
clear_chat_history(sid) ==
    /\ clear_op.n < MaxClears
    /\ \/ /\ chat_db' = delete_session_messages(chat_db, sid).db
          /\ clear_op' = [n |-> clear_op.n + 1, session |-> sid, status |-> 200,
                          deleted |-> delete_session_messages(chat_db, sid).deleted_count]
       \/ /\ clear_op' = [n |-> clear_op.n + 1, session |-> sid, status |-> 500,
                          deleted |-> 0]
          /\ UNCHANGED chat_db
    /\ UNCHANGED <<active_sessions, reg_op, callVars, turn, tool_op, session_doc, clock>>

\* A session that already holds HISTORY_LIMIT Messages of earlier turns.
EarlierHistory ==
    [i \in 1..HISTORY_LIMIT |->
        Stored(IF i % 2 = 1 THEN "user" ELSE "assistant", <<"earlier">>, 0)]

\* One session with a long history, the others new.
InitHistory ==
    /\ InitRegistry /\ InitCalls /\ InitTools /\ InitSessions /\ InitClear
    /\ chat_db = [sid \in ChatSessions |-> IF sid = 1 THEN EarlierHistory ELSE <<>>]
    /\ turn = [r \in Requests |-> IdleTurn]

HistoryRequests == 1..NumHistoryRequests

\* ---------------------------------------------------------- specifications
Init == InitRegistry /\ InitCalls /\ InitChat /\ InitTools /\ InitSessions /\ InitClear

Next ==
    \E c \in Calls :
        \/ OfferStart(c)
        \/ OfferFails(c)
        \/ OfferAdmits(c)
        \/ TaskStarts(c)
        \/ PipelineEnds(c)
        \/ PipelineFaults(c)
        \/ PipelineCancelled(c)
        \/ RunnerReturns(c)
        \/ RunnerRaises(c)
        \/ ErrorWriteReturns(c)
        \/ ConnectedSignal(c)
        \/ CreateSessionReturns(c)
        \/ ReadySignal(c)
        \/ DisconnectedSignal(c)
        \/ DisconnectCancelReturns(c)
        \/ EndedWriteReturns(c)

\* The call-start route, its background tasks and the transport signals.
Spec == Init /\ [][Next]_vars

NextRegistry ==
    \/ \E id \in Calls, task \in TaskHandles : CallAddSession(id, task)
    \/ \E id \in Calls : CallRemoveSession(id)
    \/ \E id \in Calls : CallGetSession(id)
    \/ CallGetActiveCount
    \/ \E id \in Calls : CallIsSessionActive(id)

\* The registry's functions called in any order with any arguments.
SpecRegistry == Init /\ [][NextRegistry]_vars

NextChat ==
    \E r \in Requests :
        \/ ReceiveSendText(r)
        \/ SaveUserReturns(r)
        \/ GetHistoryReturns(r)
        \/ DecisionReturns(r)
        \/ RetryReturns(r)
        \/ ToolCallStep(r)
        \/ ToolLoopEnds(r)
        \/ FinishReturns(r)
        \/ SaveReplyReturns(r)

\* Send-text requests, overlapping at their awaits.
SpecChat == Init /\ [][NextChat]_vars

NextHistory ==
    \/ \E r \in HistoryRequests :
        \/ ReceiveSendText(r)
        \/ SaveUserReturns(r)
        \/ GetHistoryReturns(r)
        \/ DecisionReturns(r)
        \/ RetryReturns(r)
        \/ ToolCallStep(r)
        \/ ToolLoopEnds(r)
        \/ FinishReturns(r)
        \/ SaveReplyReturns(r)
    \/ \E sid \in ChatSessions : clear_chat_history(sid)
    \/ \E sid \in ChatSessions : RepoCreateSession(sid)

\* Send-text and session-clear requests on stored histories, one of them long,
\* with Session records created for the ids.
SpecHistory == InitHistory /\ [][NextHistory]_vars

NextTools == \E name \in TOOL_HANDLERS : CallHandler(name)

\* The six registered handlers called with any argument mapping.
SpecTools == Init /\ [][NextTools]_vars

NextSessions ==
    \/ ClockTick
    \/ \E c \in Calls : RepoCreateSession(c)
    \/ \E c \in Calls, status \in {"ended", "error"} : RepoEndSession(c, status)

\* The stored Session records under any sequence of connected, disconnect and
\* fault events.
SpecSessions == Init /\ [][NextSessions]_vars

\* ------------------------------------------------------------------ claims
\* C1: once the background task of a call has exited (the pipeline returned, was
\* cancelled after a disconnect, or raised, also when writing the Errored status
\* raised in turn), the registry no longer holds the call's session id.
C1_EvictedAfterTaskExit ==
    \A c \in Calls : task_pc[c] = "exited" => ~is_session_active(active_sessions, c)

\* C1 witness: a task left by an exception whose Errored write failed (the record
\* is still Active), and the id is gone from the registry.
C1_Witness ==
    \E c \in Calls :
        /\ task_pc[c] = "exited"
        /\ task_exit[c] = "storage_fault"
        /\ end_calls[c] = <<"error">>
        /\ sess_status[c] = "active"
        /\ ~is_session_active(active_sessions, c)

\* C2: every session whose task was started ends with a terminal status written
\* through end_session, whichever way the task exits. In a state a finite run
\* reaches: the task has exited and no disconnect handler is still in flight,
\* so end_session has been called.
C2_TerminalStatusWritten ==
    \A c \in Calls :
        (task_pc[c] = "exited" /\ h_cancel[c] = 0 /\ h_write[c] = 0)
            => end_calls[c] # <<>>

\* C3: end_session is invoked at most once per session: never with Ended and
\* Errored both, never twice.
C3_AtMostOneTerminalWrite ==
    \A c \in Calls : Len(end_calls[c]) <= 1

\* C4: admitting an id that is already in the registry fails with a conflict and
\* leaves the existing entry unchanged.
C4_DuplicateAdmissionRejected ==
    (reg_op.op = "add" /\ reg_op.id \in DOMAIN reg_op.pre)
        => (reg_op.raised # "none" /\ active_sessions = reg_op.pre)

\* C5: remove_session never raises; for an absent id it leaves the registry
\* unchanged; a second remove_session of the same id yields the registry the
\* first one left.
C5_RemoveIdempotent ==
    reg_op.op = "remove" =>
        /\ reg_op.raised = "none"
        /\ reg_op.id \notin DOMAIN reg_op.pre => active_sessions = reg_op.pre
        /\ remove_session(active_sessions, reg_op.id).raised = "none"
        /\ remove_session(active_sessions, reg_op.id).reg = active_sessions

\* C5 witness: remove_session was called for an id absent from a registry that
\* holds another session.
C5_Witness ==
    /\ reg_op.op = "remove"
    /\ reg_op.id \notin DOMAIN reg_op.pre
    /\ reg_op.pre # EmptyRegistry
    /\ active_sessions = reg_op.pre

\* ------------------------------------------------------ claims: send-text
\* The Messages a request has persisted, in the order of its session's collection.
SavedBy(r) ==
    IF turn[r].session \in ChatSessions
    THEN SelectSeq(chat_db[turn[r].session], LAMBDA m : m.by = r)
    ELSE <<>>

Completed(r) == turn[r].pc = "done" /\ turn[r].status = 200

\* C6: a completed turn has persisted exactly two Messages, the user Message and
\* then the assistant Message, whatever the number of tool invocations; nothing
\* with another role is ever stored.
C6_TwoMessagesPerTurn ==
    /\ \A r \in Requests :
         Completed(r) =>
            /\ Len(SavedBy(r)) = 2
            /\ SavedBy(r)[1].role = "user"
            /\ SavedBy(r)[2].role = "assistant"
            /\ \A sid \in ChatSessions \ {turn[r].session} :
                 \A i \in 1..Len(chat_db[sid]) : chat_db[sid][i].by # r
    /\ \A sid \in ChatSessions :
         \A i \in 1..Len(chat_db[sid]) : chat_db[sid][i].role \in {"user", "assistant"}

\* C6 witness: a completed turn that ran two tool invocations.
C6_Witness ==
    \E r \in Requests :
        /\ Completed(r)
        /\ Len(turn[r].tool_log) = 2
        /\ Len(SavedBy(r)) = 2

\* How far a turn is from its end.
Rank(t) ==
    CASE t.pc = "done" -> 0
      [] t.pc = "save_reply" -> 1
      [] t.pc = "finish" -> 2
      [] t.pc = "retry" -> 2
      [] t.pc = "tools" -> 4 + Len(t.tool_calls) - t.tc_i
      [] t.pc = "decide" -> 4 + MaxToolCalls
      [] t.pc = "get_history" -> 5 + MaxToolCalls
      [] t.pc = "save_user" -> 6 + MaxToolCalls
      [] OTHER -> 7 + MaxToolCalls

\* The steps of request r once it is received.
TurnStep(r) ==
    \/ SaveUserReturns(r)
    \/ GetHistoryReturns(r)
    \/ DecisionReturns(r)
    \/ RetryReturns(r)
    \/ ToolCallStep(r)
    \/ ToolLoopEnds(r)
    \/ FinishReturns(r)
    \/ SaveReplyReturns(r)

\* C7: the tool-call loop ends whatever the collaborator answers: a turn makes at
\* most 3 collaborator calls, every step of a turn brings it closer to its end,
\* and a turn that has not ended always has a step to take.
C7_LoopBounded ==
    /\ [](\A r \in Requests : Len(turn[r].llm_calls) <= 3)
    /\ [][\A r \in Requests :
            turn'[r] # turn[r] => Rank(turn'[r]) < Rank(turn[r])]_vars
    /\ [](\A r \in Requests :
            turn[r].pc \notin {"idle", "done"} => ENABLED TurnStep(r))

\* C7 witness: a turn that ended although the collaborator asked for tools on
\* the one call that offered them.
C7_Witness ==
    \E r \in Requests :
        /\ turn[r].pc = "done"
        /\ Len(turn[r].llm_calls) = 2
        /\ turn[r].llm_calls[1] = [tools |-> TRUE, reply |-> "tool_calls"]
        /\ turn[r].llm_calls[2].tools = FALSE

\* The collaborator asked for tools on the call that offered them, every call of
\* the turn was made and none gave a text; storage did not fail.
Exhausted(r) ==
    /\ turn[r].pc = "done"
    /\ Len(turn[r].llm_calls) = 2
    /\ turn[r].llm_calls[1].reply = "tool_calls"
    /\ turn[r].llm_calls[2].reply = "text"
    /\ turn[r].reply_blank
    /\ turn[r].fault # "DatabaseError"

\* C8 as stated: when the turns are used up without a text answer, the turn
\* returns the fallback "I'm having trouble retrieving that information right now"
\* as a successful result.
C8_TroubleFallback ==
    \A r \in Requests :
        Exhausted(r) => (turn[r].status = 200 /\ turn[r].body = TroubleText)

\* C8 amended: when the decision call asks for tools and the finishing call gives
\* no text, the turn returns "I couldn't generate a response." as a successful
\* result, persisted as the assistant Message; no answer is ever the
\* "I'm having trouble ..." text.
C8_NoResponseFallback ==
    /\ \A r \in Requests :
         Exhausted(r) =>
            /\ turn[r].status = 200
            /\ turn[r].body = NoResponseText
            /\ SavedBy(r)[Len(SavedBy(r))] = Stored("assistant", NoResponseText, r)
    /\ \A r \in Requests : turn[r].body # TroubleText /\ turn[r].ai_text # TroubleText

\* C8 witness: such a turn, answered 200.
C8_Witness ==
    \E r \in Requests :
        Exhausted(r) /\ turn[r].status = 200 /\ Len(turn[r].tool_log) = MaxToolCalls

UnknownAsked(r) ==
    \E i \in 1..Len(turn[r].tool_log) : turn[r].tool_log[i].name \notin TOOL_HANDLERS

\* C9: an invocation of a name that is not in the handler table gets the
\* not-found result, the loop goes on with the remaining invocations, and the
\* turn reaches its final answer (collaborator and storage not failing), which
\* is persisted as the assistant Message.
C9_UnknownToolDoesNotAbort ==
    \A r \in Requests :
        (turn[r].pc = "done" /\ UnknownAsked(r)) =>
            /\ \A i \in 1..Len(turn[r].tool_log) :
                 turn[r].tool_log[i].name \notin TOOL_HANDLERS
                    => turn[r].tool_log[i].outcome = "not_found"
            /\ turn[r].fault \notin {"DatabaseError", "LLMError"} =>
                 /\ turn[r].status = 200
                 /\ SavedBy(r)[Len(SavedBy(r))] = Stored("assistant", turn[r].body, r)

\* C10: the answer of a completed turn is never empty or blank, it is the text
\* persisted as the assistant Message, and it is "I couldn't generate a response."
\* whenever the collaborator's text was empty, whitespace only or absent.
C10_AnswerNeverEmpty ==
    \A r \in Requests :
        Completed(r) =>
            /\ turn[r].body # <<>>
            /\ ~IsBlank(turn[r].body)
            /\ turn[r].reply_blank => turn[r].body = NoResponseText
            /\ SavedBy(r)[Len(SavedBy(r))] = Stored("assistant", turn[r].body, r)

\* C10 witness: the retry without tools gave no text and the turn answered with
\* the fixed string.
C10_Witness ==
    \E r \in Requests :
        /\ Completed(r)
        /\ turn[r].llm_calls[1].reply = "tool_use_failed"
        /\ turn[r].reply_blank
        /\ turn[r].body = NoResponseText

\* The first collaborator call of the turn failed with the malformed-tool-call
\* condition.
MalformedFirst(r) ==
    /\ turn[r].llm_calls # <<>>
    /\ turn[r].llm_calls[1].reply = "tool_use_failed"

\* C11: after a malformed-tool-call failure of the first collaborator call,
\* exactly one further call is issued, with tools disabled, no tool is executed,
\* and the turn ends with a non-empty text answer persisted and returned; a
\* failure response comes only from the retry itself failing or from storage.
C11_RetryWithoutToolsOnce ==
    \A r \in Requests :
        MalformedFirst(r) =>
            /\ Len(turn[r].llm_calls) = 2
            /\ turn[r].llm_calls[2].tools = FALSE
            /\ turn[r].tool_log = <<>>
            /\ ~turn[r].tool_was_used
            /\ turn[r].pc \in {"retry", "save_reply", "done"}
            /\ turn[r].pc = "done" =>
                 /\ turn[r].status # 200 =>
                      \/ turn[r].llm_calls[2].reply = "error"
                      \/ turn[r].fault = "DatabaseError"
                 /\ turn[r].status = 200 =>
                      /\ turn[r].llm_calls[2].reply = "text"
                      /\ ~IsBlank(turn[r].body)
                      /\ SavedBy(r)[Len(SavedBy(r))] = Stored("assistant", turn[r].body, r)

\* C11 witness: the retry answered with a text of its own and the turn returned it.
C11_Witness ==
    \E r \in Requests :
        /\ MalformedFirst(r)
        /\ Completed(r)
        /\ ~turn[r].reply_blank
        /\ turn[r].body # NoResponseText

\* C12: no tool invocation aborts the turn: whatever name and arguments the
\* collaborator returns, each invocation ends with a textual result in the
\* context and the turn ends with a persisted assistant Message (collaborator
\* and storage not failing).
C12_ToolFailureNeverAborts ==
    \A r \in Requests :
        (turn[r].pc = "done" /\ turn[r].tool_log # <<>>) =>
            /\ \A i \in 1..Len(turn[r].tool_log) :
                 turn[r].tool_log[i].outcome \in {"result", "not_found"}
            /\ turn[r].fault \notin {"DatabaseError", "LLMError"} =>
                 /\ turn[r].status = 200
                 /\ Len(SavedBy(r)) = 2
                 /\ SavedBy(r)[2].role = "assistant"

\* ------------------------------------------------- claims: tool handlers
\* C13: every registered handler, for every argument mapping, returns without
\* raising and delivers exactly one text through the result callback.
C13_HandlersNeverRaise ==
    tool_op.name \in TOOL_HANDLERS =>
        (~tool_op.raised /\ Len(tool_op.results) = 1)

\* ------------------------------------------------ claims: session records
\* C18: in every stored Session record ended_at and duration_seconds are both
\* absent or both present, they are absent exactly when the status is Active,
\* and when present duration_seconds = ended_at - started_at.
C18_EndedAtAndDuration ==
    \A c \in DOMAIN session_doc :
        LET doc == session_doc[c] IN
        /\ (doc.ended_at = None) <=> (doc.duration_seconds = None)
        /\ (doc.status = "active") <=> (doc.ended_at = None)
        /\ doc.ended_at # None => doc.duration_seconds = doc.ended_at - doc.started_at

\* C18 witness: a record finalized as Errored some seconds after its creation,
\* next to a record that is still Active.
C18_Witness ==
    \E c, d \in DOMAIN session_doc :
        /\ session_doc[c].status = "error"
        /\ session_doc[c].started_at = 1
        /\ session_doc[c].duration_seconds = 2
        /\ session_doc[d].status = "active"

\* ------------------------------------------- claims: send-text, continued
\* The tool entries of the context list.
ToolEntries(msgs) == SelectSeq(msgs, LAMBDA e : e.role = "tool")

DecidedText(r) == turn[r].llm_calls # <<>> /\ turn[r].llm_calls[1].reply = "text"
DecidedTools(r) == turn[r].llm_calls # <<>> /\ turn[r].llm_calls[1].reply = "tool_calls"

C17_StorageFailureSurfaced ==
    /\ [](\A r \in Requests :
            (turn[r].pc = "done" /\ turn[r].fault = "DatabaseError") =>
                /\ turn[r].status = 500
                /\ turn[r].body = <<>>
                /\ \A i \in 1..Len(SavedBy(r)) : SavedBy(r)[i].role = "user"
                /\ turn[r].llm_calls = <<>> => SavedBy(r) = <<>> \/ Len(SavedBy(r)) = 1)
    /\ [][\A r \in Requests :
            (turn[r].pc = "save_user" /\ turn'[r].pc = "done") =>
                /\ turn'[r].status = 500
                /\ turn'[r].llm_calls = <<>>
                /\ chat_db' = chat_db
                /\ SavedBy(r)' = <<>>]_vars
    /\ [][\A r \in Requests :
            (turn[r].pc = "save_reply" /\ turn'[r].pc = "done" /\ chat_db' = chat_db) =>
                /\ turn'[r].status = 500
                /\ turn'[r].body = <<>>]_vars

\* C17 witness: the answer was ready and saving it failed.
C17_Witness ==
    \E r \in Requests :
        /\ turn[r].pc = "done"
        /\ turn[r].fault = "DatabaseError"
        /\ turn[r].llm_calls # <<>>
        /\ turn[r].llm_calls[Len(turn[r].llm_calls)].reply = "text"
        /\ Len(SavedBy(r)) = 1

\* ------------------------------------------------ claims: call lifecycle
Written(c, status) == \E i \in 1..Len(end_calls[c]) : end_calls[c][i] = status

\* C15: on a disconnect signal during processing the handler first requests the
\* cancellation of the pipeline task and writes Ended only afterwards, once the
\* pipeline has stopped; from the disconnect signal on, the steps of the call
\* persist no Message.
C15_CancelBeforeEnded ==
    /\ [](\A c \in Calls :
            /\ Written(c, "ended") => pipe[c] \in {"finished", "faulted"}
            /\ pipe[c] = "cancelling" => (disconnects[c] > 0 /\ ~Written(c, "ended")))
    /\ [][\A c \in Calls :
            disconnects'[c] > disconnects[c] =>
                /\ pipe[c] = "running" => pipe'[c] = "cancelling"
                /\ h_cancel'[c] = h_cancel[c] + 1
                /\ end_calls'[c] = end_calls[c]
                /\ sess_status'[c] = sess_status[c]]_vars
    /\ [][\A c \in Calls :
            end_calls'[c] = Append(end_calls[c], "ended") =>
                /\ h_cancel[c] > 0
                /\ pipe[c] # "running"]_vars
    /\ [][(\E c \in Calls : disconnects[c] > 0) => chat_db' = chat_db]_vars

\* C15 witness: the signal came while the pipeline was running: cancellation is
\* requested and nothing is written yet.
C15_Witness ==
    \E c \in Calls :
        /\ pipe[c] = "cancelling"
        /\ greeted[c]
        /\ h_cancel[c] = 1
        /\ end_calls[c] = <<>>
        /\ sess_status[c] = "active"

\* C16: when the pipeline task raises, end_session is called with the error
\* status while the id is still registered; the stored record (if any) becomes
\* Errored, the exception leaves run_pipeline and the registry entry is removed.
C16_ErroredThenEvicted ==
    /\ [](\A c \in Calls :
            /\ task_pc[c] = "error_write" =>
                 (is_session_active(active_sessions, c) /\ Written(c, "error"))
            /\ (task_pc[c] = "exited" /\ pipe[c] = "faulted") =>
                 /\ task_exit[c] \in {"raised", "storage_fault"}
                 /\ Written(c, "error")
                 /\ ~is_session_active(active_sessions, c))
    /\ [][\A c \in Calls :
            (task_pc[c] = "running" /\ pipe[c] = "faulted" /\ task_pc'[c] # task_pc[c]) =>
                /\ task_pc'[c] = "error_write"
                /\ end_calls'[c] = Append(end_calls[c], "error")
                /\ active_sessions' = active_sessions]_vars
    /\ [][\A c \in Calls :
            (task_pc[c] = "error_write" /\ task_exit'[c] = "raised") =>
                /\ sess_status[c] # "absent" => sess_status'[c] = "error"
                /\ ~is_session_active(active_sessions', c)]_vars

\* C16 witness: a faulted call, stored as Errored, re-raised and evicted.
C16_Witness ==
    \E c \in Calls :
        /\ task_exit[c] = "raised"
        /\ end_calls[c] = <<"error">>
        /\ sess_status[c] = "error"
        /\ ~is_session_active(active_sessions, c)

\* The ids admitted by add_session and not yet removed by remove_session.
Admitted == {c \in Calls : task_pc[c] \in {"created", "running", "error_write"}}

\* C19: under every interleaving of the session tasks get_active_count is the
\* number of ids admitted and not yet removed, and get_session and
\* is_session_active report an id present exactly when it is one of them, with
\* the task handle it was admitted with.
C19_RegistryConsistent ==
    /\ get_active_count(active_sessions) = Cardinality(Admitted)
    /\ \A c \in Calls :
         /\ is_session_active(active_sessions, c) <=> c \in Admitted
         /\ get_session(active_sessions, c) # NoTask <=> c \in Admitted
         /\ c \in Admitted => get_session(active_sessions, c) = c

\* C19 witness: one call was evicted while another one is still registered.
C19_Witness ==
    \E c, d \in Calls :
        /\ task_pc[c] = "exited"
        /\ task_pc[d] = "error_write"
        /\ get_active_count(active_sessions) = 1
        /\ get_session(active_sessions, d) = d

\* What belongs to call d.
Owned(d) ==
    <<is_session_active(active_sessions, d), get_session(active_sessions, d),
      task_pc[d], task_exit[d], pipe[d], sess_status[d], end_calls[d]>>

\* C20: a step of one session (its fault, its disconnect, its cleanup) leaves
\* the registry entry, the task, the pipeline and the stored status of every
\* other session as they were.
C20_OtherSessionsUntouched ==
    [][\E c \in Calls : \A d \in Calls \ {c} : Owned(d)' = Owned(d)]_vars

\* C20 witness: one call faulted, was disconnected and cleaned up while the
\* other is still running and registered.
C20_Witness ==
    \E c, d \in Calls :
        /\ task_exit[c] = "raised"
        /\ disconnects[c] > 0
        /\ task_pc[d] = "running"
        /\ pipe[d] = "running"
        /\ sess_status[d] = "active"
        /\ get_session(active_sessions, d) = d

\* ------------------------------------------- claims: send-text, ordering
NoPending(r) ==
    \A i \in 1..Len(turn[r].llm_calls) : turn[r].llm_calls[i].reply # "pending"

\* C22: within a turn the user Message is persisted before the first
\* collaborator call; after a response with tool invocations the context gets
\* the assistant's tool-invocation message and then one tool entry per
\* invocation, in the returned order and with the invocation's id, all before
\* the next collaborator call; the assistant Message is persisted only after the
\* last collaborator call.
C22_TurnOrder ==
    /\ [](\A r \in Requests :
            /\ turn[r].llm_calls # <<>> =>
                 (SavedBy(r) # <<>> /\ SavedBy(r)[1].role = "user")
            /\ turn[r].pc \in {"tools", "finish"} =>
                 LET n == turn[r].tc_i - 1
                     m == Len(turn[r].messages)
                 IN  /\ m > n + 1
                     /\ turn[r].messages[m - n].role = "assistant"
                     /\ turn[r].messages[m - n].content = <<"tool_calls">>
                     /\ \A i \in 1..n :
                          /\ turn[r].messages[m - n + i].role = "tool"
                          /\ turn[r].messages[m - n + i].tool_call_id = i
                          /\ turn[r].messages[m - n + i].name = turn[r].tool_calls[i].name
                     /\ \A i \in 1..(m - n - 1) : turn[r].messages[i].role # "tool"
            /\ turn[r].pc = "finish" => turn[r].tc_i = Len(turn[r].tool_calls) + 1
            /\ (\E i \in 1..Len(SavedBy(r)) : SavedBy(r)[i].role = "assistant") =>
                 (Completed(r) /\ NoPending(r)))
    /\ [][\A r \in Requests :
            Len(turn'[r].llm_calls) > Len(turn[r].llm_calls) =>
                /\ SavedBy(r)' # <<>>
                /\ \A i \in 1..Len(turn[r].llm_calls) :
                     turn'[r].llm_calls[i].reply # "pending"
                /\ turn[r].pc = "tools" => turn[r].tc_i > Len(turn[r].tool_calls)]_vars

\* C22 witness: the finishing call is in flight after two tool entries with
\* the ids 1 and 2 of two different names.
C22_Witness ==
    \E r \in Requests :
        /\ turn[r].pc = "finish"
        /\ Len(turn[r].tool_calls) = 2
        /\ turn[r].tool_calls[1].name # turn[r].tool_calls[2].name
        /\ turn[r].messages[Len(turn[r].messages)].tool_call_id = 2

\* C25: a send-text request with empty or whitespace-only content is answered
\* with status 400, persists nothing and calls no collaborator.
C25_BlankRejectedWith400 ==
    \A r \in Requests :
        (turn[r].pc = "done" /\ turn[r].fault = "HTTPException400") =>
            /\ turn[r].status = 400
            /\ turn[r].llm_calls = <<>>
            /\ SavedBy(r) = <<>>

\* C27: overlapping send-text requests of one session do not interfere: in the
\* stored history the user Message of a completed turn is directly followed by
\* the assistant Message of that turn, and the context of a turn holds nothing
\* that another turn in flight has persisted.
C27_OverlappingTurnsIsolated ==
    \A r \in Requests :
        Completed(r) =>
            \A i \in 1..Len(chat_db[turn[r].session]) :
                (chat_db[turn[r].session][i].by = r
                 /\ chat_db[turn[r].session][i].role = "user") =>
                    /\ i < Len(chat_db[turn[r].session])
                    /\ chat_db[turn[r].session][i + 1].by = r
                    /\ chat_db[turn[r].session][i + 1].role = "assistant"

\* C30: only the malformed-tool-call failure is retried without tools; any other
\* failure of a collaborator call (decision, retry or finishing) ends the
\* request with a failure response, no assistant Message of the turn is
\* persisted and its user Message stays.
C30_OnlyMalformedIsRetried ==
    \A r \in Requests :
        /\ (Len(turn[r].llm_calls) = 2 /\ turn[r].llm_calls[1].reply # "tool_calls") =>
              turn[r].llm_calls[1].reply = "tool_use_failed"
        /\ (\E i \in 1..Len(turn[r].llm_calls) : turn[r].llm_calls[i].reply = "error") =>
              /\ turn[r].pc = "done"
              /\ turn[r].status = 500
              /\ turn[r].fault = "LLMError"
              /\ turn[r].llm_calls[Len(turn[r].llm_calls)].reply = "error"
              /\ Len(SavedBy(r)) = 1
              /\ SavedBy(r)[1].role = "user"

\* C30 witness: the retry without tools failed in its turn.
C30_Witness ==
    \E r \in Requests :
        /\ turn[r].pc = "done"
        /\ Len(turn[r].llm_calls) = 2
        /\ turn[r].llm_calls[1].reply = "tool_use_failed"
        /\ turn[r].llm_calls[2].reply = "error"
        /\ turn[r].status = 500
        /\ Len(SavedBy(r)) = 1

\* --------------------------------------- claims: call lifecycle, ordering
\* C23: the Session record is created on the connected signal before the
\* greeting is queued on the client-ready signal, and neither a record creation
\* nor a greeting happens once the disconnect handling has started or a
\* terminal status was written.
C23_LifecycleOrder ==
    /\ [][\A c \in Calls :
            (greeted'[c] /\ ~greeted[c]) =>
                /\ connected[c] = "done"
                /\ sess_status[c] = "active"
                /\ disconnects[c] = 0
                /\ end_calls[c] = <<>>]_vars
    /\ [][\A c \in Calls :
            (sess_status[c] = "absent" /\ sess_status'[c] # "absent") =>
                /\ ~greeted[c]
                /\ disconnects[c] = 0
                /\ end_calls[c] = <<>>]_vars

\* C28: end_session is invoked only for a session whose record create_session
\* has stored: no terminal status is written for a record that does not exist.
C28_EndOnlyAfterCreate ==
    \A c \in Calls : end_calls[c] # <<>> => sess_status[c] # "absent"

\* C29: a call-start request answered with a failure leaves no registry entry
\* and no background task; a registered session or a started task belongs to a
\* request that returns the SDP answer.
C29_FailedOfferLeavesNoTrace ==
    \A c \in Calls :
        /\ offer_pc[c] = "failed" =>
             /\ ~is_session_active(active_sessions, c)
             /\ task_pc[c] = "none"
             /\ pipe[c] = "new"
        /\ (is_session_active(active_sessions, c) \/ task_pc[c] # "none") =>
             offer_pc[c] = "answered"

\* C29 witness: one request failed while another call is registered and running.
C29_Witness ==
    \E c, d \in Calls :
        /\ offer_pc[c] = "failed"
        /\ offer_pc[d] = "answered"
        /\ task_pc[d] = "running"
        /\ get_active_count(active_sessions) = 1

\* ---------------------------------------------------- claims: history
IsPrefix(a, b) == Len(a) <= Len(b) /\ SubSeq(b, 1, Len(a)) = a

\* C21: stored Messages are append-only: a step either appends to a session's
\* Messages or is a successful session-clear, which removes all and only the
\* Messages of its session id and answers with their number; a failed clear
\* removes nothing, and no step alters a stored Message.
C21_AppendOnlyExceptClear ==
    [][\A sid \in ChatSessions :
          \/ IsPrefix(chat_db[sid], chat_db'[sid])
          \/ /\ clear_op'.n = clear_op.n + 1
             /\ clear_op'.session = sid
             /\ clear_op'.status = 200
             /\ clear_op'.deleted = Len(chat_db[sid])
             /\ chat_db'[sid] = <<>>
             /\ turn' = turn
             /\ \A other \in ChatSessions \ {sid} : chat_db'[other] = chat_db[other]]_vars

\* C21 witness: the long history was cleared, counted in full, next to a session
\* whose Messages stayed.
C21_Witness ==
    /\ clear_op.status = 200
    /\ clear_op.session = 1
    /\ clear_op.deleted = HISTORY_LIMIT
    /\ chat_db[1] = <<>>
    /\ chat_db[2] # <<>>

\* C24: every successful save_message for a session whose Session record is
\* stored increments that record's message_count by one.
C24_MessageCountFollowsSaves ==
    [][\A sid \in ChatSessions :
          (sid \in DOMAIN session_doc
           /\ Len(chat_db'[sid]) = Len(chat_db[sid]) + 1) =>
              session_doc'[sid].message_count = session_doc[sid].message_count + 1]_vars

\* The last `limit` Messages of a session.
MostRecent(msgs, limit) ==
    IF Len(msgs) <= limit THEN msgs ELSE SubSeq(msgs, Len(msgs) - limit + 1, Len(msgs))

\* C26: whatever the session holds, the context of the first collaborator call
\* starts with the system instruction, ends with the user Message this turn has
\* just persisted, and holds the most recent earlier Messages in between, in
\* their order.
C26_ContextEndsWithThisTurn ==
    [][\A r \in Requests :
          (turn[r].pc = "get_history" /\ turn'[r].pc = "decide" /\ SavedBy(r) # <<>>) =>
              LET ctx == turn'[r].messages
                  recent == MostRecent(chat_db[turn[r].session], HISTORY_LIMIT)
              IN  /\ ctx[1].role = "system"
                  /\ ctx[Len(ctx)].role = "user"
                  /\ ctx[Len(ctx)].content = turn[r].content
                  /\ Len(ctx) = Len(recent) + 1
                  /\ \A i \in 1..Len(recent) :
                       /\ ctx[i + 1].role = recent[i].role
                       /\ ctx[i + 1].content = recent[i].content]_vars

====
